---------------------------- MODULE Spec2Model ----------------------------
(***************************************************************************)
(* State-machine model of the VersionManagement component                  *)
(* (src/src/components/project-details/VersionManagement.tsx).             *)
(*                                                                         *)
(* The component's React state (dialogOpen, editingVersion, formData), its *)
(* props (projectId, versions, userRole), the asynchronous handlers        *)
(* suspended at their await points (pending), and the external store the   *)
(* db.query calls act on (store) are the state.  One action per UI event   *)
(* or handler continuation.                                                *)
(*                                                                         *)
(* What the model takes from the libraries the component is built on:      *)
(*  - the versions prop is read as a collection (length, map, one row per  *)
(*    element); its order is not part of the state;                        *)
(*  - an asynchronous handler keeps the state and props of the render it   *)
(*    was started from; several may be suspended at once, and their awaits *)
(*    resolve in any order;                                                *)
(*  - a db.query call is carried out and its handler resumed in one step;  *)
(*    the store keeps whatever it is sent (no constraint of its own);      *)
(*  - the caller re-fetches the list some time after onVersionsUpdate, or  *)
(*    not at all;                                                          *)
(*  - the dialog and the delete confirmation are modal: the row buttons    *)
(*    that start a call are not clicked while the dialog is open, and      *)
(*    nothing else is clicked while a confirmation is open;                *)
(*  - timestamps are readings of a logical clock;                          *)
(*  - the role "none" stands for userRole = null.                          *)
(***************************************************************************)
EXTENDS Integers, Sequences, FiniteSets, TLC

(***************************************************************************)
(* Bounds of the model.                                                    *)
(***************************************************************************)
\* Asynchronous handler runs started in one behaviour: each ticks the logical
\* clock, which stops at the limit.  SpecDeep allows one run more.
MaxClock == 1

(***************************************************************************)
(* JavaScript values: a string is a sequence of one-character strings, and *)
(* null is a value of its own, distinct from the empty string.             *)
(***************************************************************************)
Null == [t |-> "null", s |-> <<>>]

Str(s) == [t |-> "string", s |-> s]

\* JS truthiness of a string-or-null value: null and "" are falsy.
Truthy(v) == v.t = "string" /\ Len(v.s) > 0

\* A faulty variant of Or: `a ?? b`, which keeps the empty string.
Or_Nullish(a, b) == IF a = Null THEN b ELSE a

\* JS `a || b`.
Or(a, b) == IF Truthy(a) THEN a ELSE b

EmptyStr == Str(<<>>)

(***************************************************************************)
(* new URL(url): the scheme scan of the URL parser.  Leading and trailing  *)
(* spaces are stripped; the input must start with a scheme (a letter, then *)
(* letters, "+", "-", "."), followed by ":"; a special scheme (http,       *)
(* https) also needs a non-empty host after its slashes.                   *)
(***************************************************************************)
Alpha == {"a", "b", "c", "d", "e", "f", "g", "h", "i", "j", "k", "l", "m",
          "n", "o", "p", "q", "r", "s", "t", "u", "v", "w", "x", "y", "z"}

SchemeChars == Alpha \cup {"+", "-", "."}

RECURSIVE TrimLeft(_)
TrimLeft(s) == IF s # <<>> /\ Head(s) = " " THEN TrimLeft(Tail(s)) ELSE s

RECURSIVE TrimRight(_)
TrimRight(s) ==
    IF s # <<>> /\ s[Len(s)] = " " THEN TrimRight(SubSeq(s, 1, Len(s) - 1)) ELSE s

Trim(s) == TrimRight(TrimLeft(s))

\* Position of the first ":" of s, 0 when there is none.
FirstColon(s) ==
    IF \E i \in 1..Len(s) : s[i] = ":"
    THEN CHOOSE i \in 1..Len(s) : s[i] = ":" /\ \A j \in 1..(i - 1) : s[j] # ":"
    ELSE 0

RECURSIVE SkipSlashes(_)
SkipSlashes(s) ==
    IF s # <<>> /\ Head(s) \in {"/", "\\"} THEN SkipSlashes(Tail(s)) ELSE s

SpecialSchemes == {<<"h", "t", "t", "p">>, <<"h", "t", "t", "p", "s">>}

\* Whether new URL(s) returns (TRUE) or throws (FALSE).
UrlParses(s) ==
    LET t == Trim(s)
        c == FirstColon(t)
    IN  /\ c >= 2
        /\ t[1] \in Alpha
        /\ \A j \in 2..(c - 1) : t[j] \in SchemeChars
        /\ LET scheme == SubSeq(t, 1, c - 1)
               rest == SkipSlashes(SubSeq(t, c + 1, Len(t)))
           IN  scheme \in SpecialSchemes => (rest # <<>> /\ Head(rest) \notin {"?", "#"})

\* isValidUrl: try { new URL(url); return true } catch { return false }.
isValidUrl(url) == UrlParses(url.s)

(***************************************************************************)
(* Inputs.                                                                 *)
(***************************************************************************)
UrlA == <<"h", "t", "t", "p", "s", ":", "/", "/", "e", ".", "c", "o", "/", "a">>

NotAUrl == <<"n", "o", "t", "-", "a", "-", "u", "r", "l">>

\* What the user may type into either input of the form.
Typed == {<<>>, UrlA, NotAUrl}

\* What supabase.auth.getUser() may resolve to: a user id, or no user.
NoUser == "none"

Users == {"u1"}

\* The projectId prop.
projectId == "p1"

(***************************************************************************)
(* Version records.  id 0 is the absent record (editingVersion = null).    *)
(***************************************************************************)
Version(id, num, preview, final, by, approved, updated) ==
    [id |-> id, project_id |-> projectId, version_number |-> num,
     preview_url |-> preview, final_url |-> final, uploaded_by |-> by,
     is_approved |-> approved, updated_at |-> updated]

NoVersion == [id |-> 0]

\* A list the component may be mounted on: two records created earlier, here
\* or elsewhere, numbered 1 and 3 (the one numbered 2 has been deleted).
TwoVersions ==
    { Version(1, 1, Str(UrlA), Null, "u0", TRUE, 0),
      Version(2, 3, Null, Null, "u0", FALSE, 0) }

\* The props the component is mounted with: the list and the role.
Mounts ==
    { [versions |-> TwoVersions, userRole |-> "client"],
      [versions |-> {}, userRole |-> "editor"],
      [versions |-> {}, userRole |-> "none"],
      [versions |-> {}, userRole |-> "client"] }

(***************************************************************************)
(* State.                                                                  *)
(***************************************************************************)
VARIABLES
    dialogOpen,      \* useState(false)
    editingVersion,  \* useState<any>(null): a version record, or NoVersion
    formData,        \* useState({ preview_url: "", final_url: "" })
    versions,        \* the versions prop: the caller's copy of the list
    userRole,        \* the userRole prop
    alertOpen,       \* id of the row whose delete confirmation is open, or 0
    pending,         \* handlers suspended at an await, in the order they started
    store,           \* the video_versions collection behind db.query
    nextId,          \* the id the store gives the next inserted record
    clock,           \* logical time: the number of asynchronous handler runs started
    limit,           \* where the clock stops
    everMax,         \* largest version_number any record of the project ever had
    last             \* the latest step: the event or continuation that ran, the
                     \* user it resolved (getUser), the toast it showed, and
                     \* whether it invoked onVersionsUpdate

vars == <<dialogOpen, editingVersion, formData, versions, userRole, alertOpen,
          pending, store, nextId, clock, limit, everMax, last>>

EmptyForm == [preview_url |-> EmptyStr, final_url |-> EmptyStr]

NoCall == [operation |-> "none"]

NoToast == "none"

\* The op field of a step that runs none of the component's handlers: an
\* input change, a click on a row's delete button, a new versions prop.
NoHandler == "-"

\* The user field of a step that is no user lookup.
NotAsked == "-"

Step(op, user, toast, refresh) ==
    [op |-> op, user |-> user, toast |-> toast, refresh |-> refresh]

\* A step that shows no toast and does not invoke onVersionsUpdate.
Quiet(op) == Step(op, NotAsked, NoToast, FALSE)

RemoveAt(q, i) == SubSeq(q, 1, i - 1) \o SubSeq(q, i + 1, Len(q))

RECURSIVE MathMax(_)
\* Math.max(...xs) of a non-empty collection of numbers.
MathMax(xs) ==
    LET x == CHOOSE y \in xs : TRUE
        rest == xs \ {x}
    IN  IF rest = {} THEN x
        ELSE LET m == MathMax(rest) IN IF x > m THEN x ELSE m

VersionNumbers(list) == {v.version_number : v \in list}

Mounted ==
    /\ dialogOpen = FALSE
    /\ editingVersion = NoVersion
    /\ formData = EmptyForm
    /\ \E m \in Mounts : versions = m.versions /\ userRole = m.userRole
    /\ store = versions
    /\ alertOpen = 0
    /\ pending = <<>>
    /\ nextId = Cardinality(store) + 1
    /\ clock = 0
    /\ everMax = IF store = {} THEN 0 ELSE MathMax(VersionNumbers(store))
    /\ last = Quiet("mount")

Init == Mounted /\ limit = MaxClock

\* The same component with one more handler run.
InitDeep == Mounted /\ limit = MaxClock + 1

\* The client's component on a project without versions, with one more
\* handler run.
InitOverlap == Mounted /\ versions = {} /\ userRole = "client" /\ limit = MaxClock + 1

(***************************************************************************)
(* The dialog and its form.                                                *)
(***************************************************************************)
\* A faulty variant of handleDialogClose: a dismissal keeps the draft and
\* the edit target.
handleDialogClose_KeepsDraft(open) ==
    /\ open = ~dialogOpen
    /\ alertOpen = 0
    /\ dialogOpen' = open
    /\ last' = Quiet("handleDialogClose")
    /\ UNCHANGED <<editingVersion, formData, versions, userRole, alertOpen,
                   pending, store, nextId, clock, limit, everMax>>

\* handleDialogClose(open): the Dialog's onOpenChange, called with the state
\* the dialog asks for (the trigger opens it; close, escape and an outside
\* click dismiss it).
handleDialogClose(open) ==
    /\ open = ~dialogOpen
    /\ alertOpen = 0
    /\ dialogOpen' = open
    /\ IF ~open
       THEN /\ editingVersion' = NoVersion
            /\ formData' = EmptyForm
       ELSE UNCHANGED <<editingVersion, formData>>
    /\ last' = Quiet("handleDialogClose")
    /\ UNCHANGED <<versions, userRole, alertOpen, pending, store, nextId, clock, limit, everMax>>

\* onChange of the preview_url input: setFormData({ ...formData, preview_url }).
ChangePreview(s) ==
    /\ dialogOpen
    /\ formData' = [formData EXCEPT !.preview_url = Str(s)]
    /\ last' = Quiet(NoHandler)
    /\ UNCHANGED <<dialogOpen, editingVersion, versions, userRole, alertOpen,
                   pending, store, nextId, clock, limit, everMax>>

\* onChange of the final_url input: setFormData({ ...formData, final_url }).
ChangeFinal(s) ==
    /\ dialogOpen
    /\ formData' = [formData EXCEPT !.final_url = Str(s)]
    /\ last' = Quiet(NoHandler)
    /\ UNCHANGED <<dialogOpen, editingVersion, versions, userRole, alertOpen,
                   pending, store, nextId, clock, limit, everMax>>

\* A faulty variant of handleEdit: the draft is not seeded from the row.
handleEdit_KeepsDraft(version) ==
    /\ version \in versions
    /\ alertOpen = 0
    /\ editingVersion' = version
    /\ dialogOpen' = TRUE
    /\ last' = Quiet("handleEdit")
    /\ UNCHANGED <<formData, versions, userRole, alertOpen, pending, store,
                   nextId, clock, limit, everMax>>

\* handleEdit(version): the edit button of a row.
handleEdit(version) ==
    /\ version \in versions
    /\ alertOpen = 0
    /\ editingVersion' = version
    /\ formData' = [preview_url |-> Or(version.preview_url, EmptyStr),
                    final_url |-> Or(version.final_url, EmptyStr)]
    /\ dialogOpen' = TRUE
    /\ last' = Quiet("handleEdit")
    /\ UNCHANGED <<versions, userRole, alertOpen, pending, store, nextId, clock, limit, everMax>>

(***************************************************************************)
(* handleSubmit, up to its first await.                                    *)
(***************************************************************************)
\* A handler suspended at an await: the values its closure holds (the
\* component's state and props of the render it was started from), the await
\* it is at, and the db.query call it has issued, if any.
Suspended(handler, await, ev, fd, list, call) ==
    [handler |-> handler, await |-> await, editingVersion |-> ev,
     formData |-> fd, versions |-> list, call |-> call]

\* A faulty variant of ValidationError: the final URL is not validated.
ValidationError_PreviewOnly(fd) ==
    IF Truthy(fd.preview_url) /\ ~isValidUrl(fd.preview_url)
    THEN "Please enter a valid preview URL"
    ELSE NoToast

\* The toast of the validation that blocks the submit, NoToast when none does.
ValidationError(fd) ==
    IF Truthy(fd.preview_url) /\ ~isValidUrl(fd.preview_url)
    THEN "Please enter a valid preview URL"
    ELSE IF Truthy(fd.final_url) /\ ~isValidUrl(fd.final_url)
         THEN "Please enter a valid final URL"
         ELSE NoToast

\* A faulty variant of handleSubmit: a submit returns at once while an
\* earlier handler is still suspended.
handleSubmit_InFlightGuard ==
    /\ dialogOpen
    /\ IF ValidationError(formData) # NoToast
       THEN /\ last' = Step("handleSubmit", NotAsked, ValidationError(formData), FALSE)
            /\ UNCHANGED <<pending, clock>>
       ELSE IF pending # <<>>
            THEN /\ last' = Quiet("handleSubmit")
                 /\ UNCHANGED <<pending, clock>>
            ELSE /\ clock < limit
                 /\ clock' = clock + 1
                 /\ pending' = Append(pending,
                        Suspended("handleSubmit", "getUser", editingVersion,
                                  formData, versions, NoCall))
                 /\ last' = Quiet("handleSubmit")
    /\ UNCHANGED <<dialogOpen, editingVersion, formData, versions, userRole,
                   alertOpen, store, nextId, limit, everMax>>

\* The form's onSubmit: validate, then await supabase.auth.getUser().
handleSubmit ==
    /\ dialogOpen
    /\ IF ValidationError(formData) # NoToast
       THEN /\ last' = Step("handleSubmit", NotAsked, ValidationError(formData), FALSE)
            /\ UNCHANGED <<pending, clock>>
       ELSE /\ clock < limit
            /\ clock' = clock + 1
            /\ pending' = Append(pending,
                   Suspended("handleSubmit", "getUser", editingVersion, formData,
                             versions, NoCall))
            /\ last' = Quiet("handleSubmit")
    /\ UNCHANGED <<dialogOpen, editingVersion, formData, versions, userRole,
                   alertOpen, store, nextId, limit, everMax>>

(***************************************************************************)
(* handleSubmit, from the user lookup to the db.query call.                *)
(***************************************************************************)
\* A faulty variant of nextVersionNumber: versions.length + 1.
nextVersionNumber_Length(list) == Cardinality(list) + 1

\* versions.length > 0 ? Math.max(...versions.map(v => v.version_number)) + 1 : 1
nextVersionNumber(list) ==
    IF Cardinality(list) > 0 THEN MathMax(VersionNumbers(list)) + 1 ELSE 1

\* A faulty variant of UpdateCall: the drafts are written as they are,
\* without `|| null`.
UpdateCall_RawDraft(ev, fd, now) ==
    [operation |-> "update", where |-> ev.id,
     data |-> [preview_url |-> fd.preview_url,
               final_url |-> fd.final_url,
               updated_at |-> now]]

\* A faulty variant of UpdateCall: an edit sends the record back to review.
UpdateCall_ResetsApproval(ev, fd, now) ==
    [operation |-> "update", where |-> ev.id,
     data |-> [preview_url |-> Or(fd.preview_url, Null),
               final_url |-> Or(fd.final_url, Null),
               updated_at |-> now,
               is_approved |-> FALSE]]

\* A faulty variant of UpdateCall: an edit also bumps the version number.
UpdateCall_Renumbers(ev, fd, now) ==
    [operation |-> "update", where |-> ev.id,
     data |-> [preview_url |-> Or(fd.preview_url, Null),
               final_url |-> Or(fd.final_url, Null),
               updated_at |-> now,
               version_number |-> ev.version_number + 1]]

\* The update call of the edit path.
UpdateCall(ev, fd, now) ==
    [operation |-> "update", where |-> ev.id,
     data |-> [preview_url |-> Or(fd.preview_url, Null),
               final_url |-> Or(fd.final_url, Null),
               updated_at |-> now]]

\* A faulty variant of InsertCall: the record is given no owner.
InsertCall_NoOwner(list, fd, user) ==
    [operation |-> "insert", where |-> 0,
     data |-> [project_id |-> projectId,
               version_number |-> nextVersionNumber(list),
               preview_url |-> Or(fd.preview_url, Null),
               final_url |-> Or(fd.final_url, Null),
               uploaded_by |-> NoUser,
               is_approved |-> FALSE]]

\* A faulty variant of InsertCall: the drafts are written as they are,
\* without `|| null`.
InsertCall_RawDraft(list, fd, user) ==
    [operation |-> "insert", where |-> 0,
     data |-> [project_id |-> projectId,
               version_number |-> nextVersionNumber(list),
               preview_url |-> fd.preview_url,
               final_url |-> fd.final_url,
               uploaded_by |-> user,
               is_approved |-> FALSE]]

\* The insert call of the create path.
InsertCall(list, fd, user) ==
    [operation |-> "insert", where |-> 0,
     data |-> [project_id |-> projectId,
               version_number |-> nextVersionNumber(list),
               preview_url |-> Or(fd.preview_url, Null),
               final_url |-> Or(fd.final_url, Null),
               uploaded_by |-> user,
               is_approved |-> FALSE]]

\* The call handleSubmit issues once a user is resolved.
SubmitCall(p, user, now) ==
    IF p.editingVersion # NoVersion
    THEN UpdateCall(p.editingVersion, p.formData, now)
    ELSE InsertCall(p.versions, p.formData, user)

\* A faulty variant of AfterGetUser: the `if (!user) return` is missing.
AfterGetUser_NoGuard(q, i, user, now) ==
    [q EXCEPT ![i] =
        Suspended(q[i].handler, "db.query", q[i].editingVersion,
                  q[i].formData, q[i].versions, SubmitCall(q[i], user, now))]

\* The suspended handlers once getUser has resolved for the i-th: with no
\* user (if (!user) return) the handler is gone; otherwise it has issued its
\* call and awaits it.
AfterGetUser(q, i, user, now) ==
    IF user = NoUser
    THEN RemoveAt(q, i)
    ELSE [q EXCEPT ![i] =
             Suspended(q[i].handler, "db.query", q[i].editingVersion,
                       q[i].formData, q[i].versions, SubmitCall(q[i], user, now))]

\* supabase.auth.getUser() resolves for the i-th suspended handler.
GetUserResolves(i, user) ==
    /\ i \in 1..Len(pending)
    /\ pending[i].await = "getUser"
    /\ pending' = AfterGetUser(pending, i, user, clock)
    /\ last' = Step("getUser", user, NoToast, FALSE)
    /\ UNCHANGED <<dialogOpen, editingVersion, formData, versions, userRole,
                   alertOpen, store, nextId, clock, limit, everMax>>

(***************************************************************************)
(* The store behind db.query.                                              *)
(***************************************************************************)
RecordFields ==
    {"id", "project_id", "version_number", "preview_url", "final_url",
     "uploaded_by", "is_approved", "updated_at"}

\* The record an insert creates: the call's data, with the id and the
\* timestamp the store gives it.
Inserted(data, id, now) ==
    [f \in RecordFields |->
        IF f \in DOMAIN data THEN data[f]
        ELSE IF f = "id" THEN id ELSE now]

\* A record after an update: the fields the call's data names are replaced.
Updated(r, data) ==
    [f \in RecordFields |-> IF f \in DOMAIN data THEN data[f] ELSE r[f]]

\* The collection after a call is carried out.
Applied(coll, call, id, now) ==
    CASE call.operation = "insert" -> coll \cup {Inserted(call.data, id, now)}
      [] call.operation = "update" ->
            {IF r.id = call.where THEN Updated(r, call.data) ELSE r : r \in coll}
      [] call.operation = "delete" -> {r \in coll : r.id # call.where}

(***************************************************************************)
(* The handlers' continuations after db.query.                             *)
(***************************************************************************)
SuccessToast(p) ==
    CASE p.handler = "handleSubmit" ->
            IF p.editingVersion # NoVersion
            THEN "Version updated successfully"
            ELSE "New version created successfully"
      [] p.handler = "handleDelete" -> "Version deleted successfully"
      [] p.handler = "handleApprove" -> "Version approved successfully"

ErrorToast(p) ==
    CASE p.handler = "handleSubmit" -> "Failed to save version"
      [] p.handler = "handleDelete" -> "Failed to delete version"
      [] p.handler = "handleApprove" -> "Failed to approve version"

\* A faulty variant of ResetDialog: the draft is not cleared.
ResetDialog_KeepsDraft ==
    /\ dialogOpen' = FALSE
    /\ editingVersion' = NoVersion
    /\ UNCHANGED formData

\* A faulty variant of ResetDialog: editingVersion is not cleared.
ResetDialog_KeepsTarget ==
    /\ dialogOpen' = FALSE
    /\ UNCHANGED editingVersion
    /\ formData' = EmptyForm

\* handleSubmit after its call returned: setDialogOpen(false),
\* setEditingVersion(null), setFormData({ preview_url: "", final_url: "" }).
ResetDialog ==
    /\ dialogOpen' = FALSE
    /\ editingVersion' = NoVersion
    /\ formData' = EmptyForm

\* The call of the i-th suspended handler is carried out and returns: the
\* handler toasts, handleSubmit resets the dialog, and onVersionsUpdate runs.
DbResolves(i) ==
    /\ i \in 1..Len(pending)
    /\ pending[i].await = "db.query"
    /\ store' = Applied(store, pending[i].call, nextId, clock)
    /\ IF pending[i].call.operation = "insert"
       THEN /\ nextId' = nextId + 1
            /\ everMax' = IF pending[i].call.data.version_number > everMax
                          THEN pending[i].call.data.version_number
                          ELSE everMax
       ELSE UNCHANGED <<nextId, everMax>>
    /\ IF pending[i].handler = "handleSubmit"
       THEN ResetDialog
       ELSE UNCHANGED <<dialogOpen, editingVersion, formData>>
    /\ pending' = RemoveAt(pending, i)
    /\ last' = Step("db.query", NotAsked, SuccessToast(pending[i]), TRUE)
    /\ UNCHANGED <<versions, userRole, alertOpen, clock, limit>>

\* A faulty variant of DbRejects: the catch of handleSubmit also resets the
\* dialog.
DbRejects_Resets(i) ==
    /\ i \in 1..Len(pending)
    /\ pending[i].await = "db.query"
    /\ pending' = RemoveAt(pending, i)
    /\ last' = Step("db.query", NotAsked, ErrorToast(pending[i]), FALSE)
    /\ IF pending[i].handler = "handleSubmit"
       THEN ResetDialog
       ELSE UNCHANGED <<dialogOpen, editingVersion, formData>>
    /\ UNCHANGED <<versions, userRole, alertOpen, store, nextId, clock, limit, everMax>>

\* A faulty variant of DbRejects: the catch also invokes onVersionsUpdate.
DbRejects_Refreshes(i) ==
    /\ i \in 1..Len(pending)
    /\ pending[i].await = "db.query"
    /\ pending' = RemoveAt(pending, i)
    /\ last' = Step("db.query", NotAsked, ErrorToast(pending[i]), TRUE)
    /\ UNCHANGED <<dialogOpen, editingVersion, formData, versions, userRole,
                   alertOpen, store, nextId, clock, limit, everMax>>

\* The call of the i-th suspended handler raises an error: the handler's
\* catch logs it and toasts.
DbRejects(i) ==
    /\ i \in 1..Len(pending)
    /\ pending[i].await = "db.query"
    /\ pending' = RemoveAt(pending, i)
    /\ last' = Step("db.query", NotAsked, ErrorToast(pending[i]), FALSE)
    /\ UNCHANGED <<dialogOpen, editingVersion, formData, versions, userRole,
                   alertOpen, store, nextId, clock, limit, everMax>>

(***************************************************************************)
(* Approve and delete.                                                     *)
(***************************************************************************)
\* A faulty variant of ApproveRendered: the approval state is not looked at.
ApproveRendered_RoleOnly(version, role) == role = "client"

\* Whether the row of `version` renders the approve button.
ApproveRendered(version, role) == ~version.is_approved /\ role = "client"

\* The call of handleApprove.
ApproveCall(versionId) ==
    [operation |-> "update", where |-> versionId, data |-> [is_approved |-> TRUE]]

\* A faulty variant of DeleteCall: the selector does not name the row.
DeleteCall_NoSelector(versionId) == [operation |-> "delete", where |-> 0]

\* The call of handleDelete.
DeleteCall(versionId) == [operation |-> "delete", where |-> versionId]

\* handleApprove(versionId), from the approve button of a row.
handleApprove(version) ==
    /\ version \in versions
    /\ ApproveRendered(version, userRole)
    /\ ~dialogOpen /\ alertOpen = 0
    /\ clock < limit
    /\ clock' = clock + 1
    /\ pending' = Append(pending,
           Suspended("handleApprove", "db.query", NoVersion, EmptyForm, {},
                     ApproveCall(version.id)))
    /\ last' = Quiet("handleApprove")
    /\ UNCHANGED <<dialogOpen, editingVersion, formData, versions, userRole,
                   alertOpen, store, nextId, limit, everMax>>

\* The delete button of a row: opens the row's confirmation.
AlertTrigger(version) ==
    /\ version \in versions
    /\ ~dialogOpen /\ alertOpen = 0
    /\ alertOpen' = version.id
    /\ last' = Quiet(NoHandler)
    /\ UNCHANGED <<dialogOpen, editingVersion, formData, versions, userRole,
                   pending, store, nextId, clock, limit, everMax>>

\* Cancel, or any other dismissal of the confirmation.
AlertCancel ==
    /\ alertOpen # 0
    /\ alertOpen' = 0
    /\ last' = Quiet("AlertDialogCancel")
    /\ UNCHANGED <<dialogOpen, editingVersion, formData, versions, userRole,
                   pending, store, nextId, clock, limit, everMax>>

\* handleDelete(versionId), from the confirmation's Delete button, which
\* also closes the confirmation.
handleDelete(versionId) ==
    /\ alertOpen # 0
    /\ versionId = alertOpen
    /\ clock < limit
    /\ clock' = clock + 1
    /\ alertOpen' = 0
    /\ pending' = Append(pending,
           Suspended("handleDelete", "db.query", NoVersion, EmptyForm, {},
                     DeleteCall(versionId)))
    /\ last' = Quiet("handleDelete")
    /\ UNCHANGED <<dialogOpen, editingVersion, formData, versions, userRole,
                   store, nextId, limit, everMax>>

(***************************************************************************)
(* The caller.                                                             *)
(***************************************************************************)
\* The caller re-fetches the list and passes it as the versions prop; a
\* confirmation whose row is gone is unmounted with the row.
Refresh ==
    /\ versions # store
    /\ versions' = store
    /\ alertOpen' = IF alertOpen \in {r.id : r \in store} THEN alertOpen ELSE 0
    /\ last' = Quiet(NoHandler)
    /\ UNCHANGED <<dialogOpen, editingVersion, formData, userRole, pending,
                   store, nextId, clock, limit, everMax>>

Next ==
    \/ \E open \in BOOLEAN : handleDialogClose(open)
    \/ \E s \in Typed : ChangePreview(s)
    \/ \E s \in Typed : ChangeFinal(s)
    \/ \E v \in versions : handleEdit(v)
    \/ handleSubmit
    \/ \E i \in 1..Len(pending), u \in Users \cup {NoUser} : GetUserResolves(i, u)
    \/ \E i \in 1..Len(pending) : DbResolves(i)
    \/ \E i \in 1..Len(pending) : DbRejects(i)
    \/ \E v \in versions : handleApprove(v)
    \/ \E v \in versions : AlertTrigger(v)
    \/ AlertCancel
    \/ \E id \in 1..(nextId - 1) : handleDelete(id)
    \/ Refresh

Spec == Init /\ [][Next]_vars

SpecDeep == InitDeep /\ [][Next]_vars

SpecOverlap == InitOverlap /\ [][Next]_vars

(***************************************************************************)
(* Properties.                                                             *)
(***************************************************************************)
UrlFields == {"preview_url", "final_url"}

\* A draft field that is not empty and that new URL() rejects.
Unparseable(v) == v.s # <<>> /\ ~UrlParses(v.s)

InvalidDraft(fd) == \E f \in UrlFields : Unparseable(fd[f])

\* The suspended runs of handleSubmit that have issued their call.
SubmitCalls == {i \in 1..Len(pending) :
                  pending[i].handler = "handleSubmit" /\ pending[i].await = "db.query"}

\* C1: every insert call carries version_number = 1 when the list its handler
\* was started with is empty, and the largest version_number of that list
\* plus one otherwise.
C1_NextVersionNumber ==
    \A i \in SubmitCalls :
        pending[i].call.operation = "insert" =>
            LET nums == VersionNumbers(pending[i].versions)
                n == pending[i].call.data.version_number
            IN  IF nums = {} THEN n = 1
                ELSE (n - 1) \in nums /\ \A k \in nums : k <= n - 1

\* An insert call issued from a list numbered {1, 3}: it carries 4, not 3.
C1_Witness ==
    \E i \in SubmitCalls :
        /\ pending[i].call.operation = "insert"
        /\ VersionNumbers(pending[i].versions) = {1, 3}
        /\ pending[i].call.data.version_number = 4

\* C2: a submit whose preview or final draft is non-empty and unparseable is
\* blocked before any network call: no handler is suspended by it (no user
\* lookup, no insert, no update), and the store, the dialog and the draft
\* are as they were.
C2_InvalidUrlBlocks ==
    [][(last'.op = "handleSubmit" /\ InvalidDraft(formData)) =>
          /\ pending' = pending
          /\ store' = store
          /\ last'.toast \in {"Please enter a valid preview URL",
                              "Please enter a valid final URL"}
          /\ UNCHANGED <<dialogOpen, editingVersion, formData>>]_vars

\* An edit whose final URL was changed to "not-a-url" has been submitted and
\* blocked.
C2_Witness ==
    /\ last.op = "handleSubmit"
    /\ last.toast = "Please enter a valid final URL"
    /\ editingVersion # NoVersion
    /\ formData.final_url = Str(NotAUrl)
    /\ pending = <<>>
    /\ store = TwoVersions

\* C3: a submit whose draft has an empty field (and no unparseable one) is
\* not blocked, and once a user is resolved its call is issued and writes
\* null, not the empty string, for that field, on the insert path and on the
\* update path.
C3_EmptyIsAbsent ==
    [][/\ (last'.op = "handleSubmit" /\ ~InvalidDraft(formData)) =>
              /\ Len(pending') = Len(pending) + 1
              /\ pending'[Len(pending')].formData = formData
              /\ last'.toast = NoToast
       /\ (last'.op = "getUser" /\ last'.user # NoUser) =>
              \E i \in 1..Len(pending) :
                  /\ pending[i].await = "getUser"
                  /\ Len(pending') = Len(pending)
                  /\ pending'[i].await = "db.query"
                  /\ pending'[i].call.operation \in {"insert", "update"}
                  /\ \A f \in UrlFields :
                         pending[i].formData[f] = EmptyStr =>
                             pending'[i].call.data[f] = Null]_vars

\* An update call has been issued from a draft whose final URL is empty.
C3_Witness ==
    /\ last.op = "getUser"
    /\ \E i \in SubmitCalls :
           /\ pending[i].call.operation = "update"
           /\ pending[i].formData.final_url = EmptyStr
           /\ pending[i].call.data.final_url = Null

\* C4: when the call of a create or an update has returned without error,
\* the dialog is closed, both draft fields are empty and editingVersion is
\* absent.
C4_SuccessResets ==
    (last.op = "db.query" /\ last.toast \in {"Version updated successfully",
                                             "New version created successfully"}) =>
        /\ ~dialogOpen
        /\ formData = EmptyForm
        /\ editingVersion = NoVersion

\* An update has just succeeded.
C4_Witness ==
    /\ last.op = "db.query"
    /\ last.toast = "Version updated successfully"
    /\ \E r \in store : r.updated_at > 0

\* C5 as stated: after a submit that does not succeed (a validation failure,
\* or the error of its insert or update call) the dialog is open, and
\* editingVersion and the draft are those the handler was started with.
C5_AsStated ==
    [][/\ (last'.op = "handleSubmit" /\ last'.toast # NoToast) =>
              /\ dialogOpen'
              /\ editingVersion' = editingVersion
              /\ formData' = formData
       /\ (last'.op = "db.query" /\ last'.toast = "Failed to save version") =>
              \E i \in SubmitCalls :
                  /\ pending' = RemoveAt(pending, i)
                  /\ dialogOpen'
                  /\ editingVersion' = pending[i].editingVersion
                  /\ formData' = pending[i].formData]_vars

\* C5, amended: a submit that does not succeed makes no dialog transition of
\* its own.  A validation failure leaves the dialog open and editingVersion
\* and the draft as submitted; handling the error of the call leaves the
\* dialog, editingVersion and the draft as they were just before it, which
\* is as submitted unless the user has dismissed the dialog, clicked edit or
\* typed while the call was pending.
C5_FailureChangesNothing ==
    [][/\ (last'.op = "handleSubmit" /\ last'.toast # NoToast) =>
              /\ dialogOpen'
              /\ UNCHANGED <<dialogOpen, editingVersion, formData>>
       /\ (last'.op = "db.query" /\ last'.toast = "Failed to save version") =>
              /\ UNCHANGED <<dialogOpen, editingVersion, formData, store>>
              /\ \E i \in SubmitCalls :
                     /\ pending' = RemoveAt(pending, i)
                     /\ (/\ dialogOpen
                         /\ editingVersion = pending[i].editingVersion
                         /\ formData = pending[i].formData) =>
                            (/\ dialogOpen'
                             /\ editingVersion' = pending[i].editingVersion
                             /\ formData' = pending[i].formData)]_vars

\* The call of a submit has just failed; the dialog is open on the draft.
C5_Witness ==
    /\ last.op = "db.query"
    /\ last.toast = "Failed to save version"
    /\ dialogOpen
    /\ formData.preview_url = Str(UrlA)

\* C6: a row renders the approve button only if its version is not approved
\* and the role is 'client'; and handleApprove has only ever been started
\* from such a row.
C6_ApproveGate ==
    /\ \A v \in versions :
           ApproveRendered(v, userRole) => (~v.is_approved /\ userRole = "client")
    /\ last.op = "handleApprove" =>
           /\ userRole = "client"
           /\ \E v \in versions :
                  /\ ~v.is_approved
                  /\ pending[Len(pending)].handler = "handleApprove"
                  /\ pending[Len(pending)].call.where = v.id

\* The client has clicked approve on the unapproved row, beside an approved
\* row that renders no button.
C6_Witness ==
    /\ last.op = "handleApprove"
    /\ userRole = "client"
    /\ \E v \in versions : v.is_approved /\ ~ApproveRendered(v, userRole)

\* C7: no two records of the same project have the same version_number.
C7_UniqueVersionNumbers ==
    \A r1 \in store, r2 \in store :
        (r1.project_id = r2.project_id /\ r1.version_number = r2.version_number)
            => r1.id = r2.id

\* C8: a record is created unapproved, becomes approved only by the call of
\* handleApprove, and an approved record that stays in the store stays
\* approved.
C8_ApprovalOneWay ==
    [][/\ \A r2 \in store' :
              (\A r \in store : r.id # r2.id) => ~r2.is_approved
       /\ \A r \in store, r2 \in store' :
              (r2.id = r.id /\ r.is_approved) => r2.is_approved
       /\ \A r \in store, r2 \in store' :
              (r2.id = r.id /\ ~r.is_approved /\ r2.is_approved) =>
                  last'.toast = "Version approved successfully"]_vars

\* An approved record has been edited, and is approved still.
C8_Witness ==
    /\ last.toast = "Version updated successfully"
    /\ \E r \in store : r.is_approved /\ r.updated_at > 0 /\ r.final_url = Str(UrlA)

\* C9: when getUser resolves no user, handleSubmit returns: it issues no
\* call, shows no toast, does not invoke onVersionsUpdate, and leaves the
\* dialog, editingVersion, the draft and the store as they were.
C9_NoUserAbortsSilently ==
    [][(last'.op = "getUser" /\ last'.user = NoUser) =>
          /\ \E i \in 1..Len(pending) :
                 pending[i].await = "getUser" /\ pending' = RemoveAt(pending, i)
          /\ last'.toast = NoToast
          /\ ~last'.refresh
          /\ UNCHANGED <<dialogOpen, editingVersion, formData, store, versions>>]_vars

\* A submit with a valid draft has been abandoned for lack of a user.
C9_Witness ==
    /\ last.op = "getUser"
    /\ last.user = NoUser
    /\ pending = <<>>
    /\ dialogOpen
    /\ formData.preview_url = Str(UrlA)

DeleteCalls(q) ==
    {i \in 1..Len(q) : q[i].await = "db.query" /\ q[i].call.operation = "delete"}

\* C10: confirming the delete of a row issues one delete call, for the id of
\* that row; opening the confirmation and dismissing it issue none; and a
\* delete call is issued by no other step.
C10_DeleteConfirmed ==
    [][/\ last'.op = "handleDelete" =>
              /\ alertOpen \in {v.id : v \in versions}
              /\ Len(pending') = Len(pending) + 1
              /\ SubSeq(pending', 1, Len(pending)) = pending
              /\ pending'[Len(pending')].call =
                     [operation |-> "delete", where |-> alertOpen]
              /\ store' = store
       /\ (last'.op = "AlertDialogCancel" \/ (alertOpen = 0 /\ alertOpen' # 0)) =>
              /\ pending' = pending
              /\ store' = store
       /\ Cardinality(DeleteCalls(pending')) > Cardinality(DeleteCalls(pending)) =>
              last'.op = "handleDelete"]_vars

\* The delete of row 2 has been confirmed: its call is the one pending.
C10_Witness ==
    /\ last.op = "handleDelete"
    /\ alertOpen = 0
    /\ Len(pending) = 1
    /\ pending[1].call = [operation |-> "delete", where |-> 2]

SuccessToasts ==
    {"Version updated successfully", "New version created successfully",
     "Version deleted successfully", "Version approved successfully"}

\* C11: onVersionsUpdate is invoked in the step in which a create, update,
\* delete or approve call returns without error, once, after the call has
\* been carried out; and in no other step: not by a submit that fails
\* validation, not when no user is resolved, not when a call raises an error.
C11_RefreshOnSuccessOnly ==
    [][/\ last'.refresh <=> (last'.op = "db.query" /\ last'.toast \in SuccessToasts)
       /\ last'.refresh =>
              \E i \in 1..Len(pending) :
                  /\ pending[i].await = "db.query"
                  /\ pending' = RemoveAt(pending, i)
                  /\ store' = Applied(store, pending[i].call, nextId, clock)
       /\ (last'.op = "db.query" /\ last'.toast \notin SuccessToasts) =>
              (store' = store /\ ~last'.refresh)]_vars

\* A delete has been carried out and the callback invoked.
C11_Witness ==
    /\ last.op = "db.query"
    /\ last.toast = "Version deleted successfully"
    /\ last.refresh
    /\ Cardinality(store) = 1

\* C12: the call the create path issues for a resolved user has is_approved
\* false, uploaded_by that user, project_id the projectId prop and each URL
\* its draft, or null for an empty draft; and the record the store gains
\* when the call returns has exactly those values.
C12_InsertedRecord ==
    [][/\ (last'.op = "getUser" /\ last'.user # NoUser) =>
              \A i \in 1..Len(pending) :
                  (pending[i].await = "getUser" /\ pending'[i].await = "db.query"
                   /\ pending[i].editingVersion = NoVersion) =>
                      LET d == pending'[i].call.data
                          fd == pending[i].formData
                      IN  /\ pending'[i].call.operation = "insert"
                          /\ d.is_approved = FALSE
                          /\ d.uploaded_by = last'.user
                          /\ d.project_id = projectId
                          /\ \A f \in UrlFields :
                                 d[f] = IF fd[f].s = <<>> THEN Null ELSE fd[f]
       /\ last'.toast = "New version created successfully" =>
              \E i \in SubmitCalls, r \in store' :
                  /\ pending' = RemoveAt(pending, i)
                  /\ store' = store \cup {r}
                  /\ \A f \in DOMAIN pending[i].call.data :
                         r[f] = pending[i].call.data[f]]_vars

\* From the empty list, the draft (a URL, empty) has been submitted and
\* stored: numbered 1, that preview URL, no final URL, unapproved.
C12_Witness ==
    /\ last.toast = "New version created successfully"
    /\ store = {Version(1, 1, Str(UrlA), Null, "u1", FALSE, 1)}

\* C13: whenever the dialog is closed, both draft fields are empty and
\* editingVersion is absent.
C13_ClosedIsClear ==
    ~dialogOpen => (formData = EmptyForm /\ editingVersion = NoVersion)

\* An edit with a draft was submitted and the dialog then dismissed while
\* the call was pending.
C13_Witness ==
    /\ ~dialogOpen
    /\ last.op = "handleDialogClose"
    /\ \E i \in 1..Len(pending) :
           /\ pending[i].editingVersion # NoVersion
           /\ pending[i].formData.final_url = Str(UrlA)

\* C14: a click on the add button while the dialog is closed opens it in
\* create mode: the dialog is open, the draft is empty and editingVersion is
\* absent, whatever happened before.
C14_AddOpensCreate ==
    [][(last'.op = "handleDialogClose" /\ ~dialogOpen) =>
          /\ dialogOpen'
          /\ formData' = EmptyForm
          /\ editingVersion' = NoVersion]_vars

\* The add dialog has been opened after an edit was saved.
C14_Witness ==
    /\ last.op = "handleDialogClose"
    /\ dialogOpen
    /\ editingVersion = NoVersion
    /\ formData = EmptyForm
    /\ \E r \in store : r.updated_at > 0 /\ r.preview_url = Null /\ r.final_url = Str(UrlA)

\* The draft field a row's URL is shown as: the URL, the empty string for an
\* absent one.
Shown(url) == IF url = Null THEN EmptyStr ELSE url

\* C15: a click on the edit button of a row, with the dialog open or closed,
\* leaves the dialog open, editingVersion that row, and each draft field the
\* row's URL, or the empty string where the row has none.
C15_EditSeeds ==
    [][last'.op = "handleEdit" =>
          /\ dialogOpen'
          /\ editingVersion' \in versions
          /\ \A f \in UrlFields : formData'[f] = Shown(editingVersion'[f])]_vars

\* Row 1 (a preview URL, no final URL) is being edited while a submit of
\* another draft is pending.
C15_Witness ==
    /\ last.op = "handleEdit"
    /\ editingVersion.id = 1
    /\ formData = [preview_url |-> Str(UrlA), final_url |-> EmptyStr]
    /\ \E i \in 1..Len(pending) : pending[i].formData.final_url = Str(UrlA)

\* C16: when the update of an edit returns, the record whose id is that of
\* the edited row has the submitted URLs (null for an empty draft) and its
\* version_number, project_id, uploaded_by and is_approved as before; every
\* other record is as before, and none is added or removed.
C16_UpdateFrame ==
    [][last'.toast = "Version updated successfully" =>
          \E i \in SubmitCalls :
              /\ pending' = RemoveAt(pending, i)
              /\ {r.id : r \in store'} = {r.id : r \in store}
              /\ Cardinality(store') = Cardinality(store)
              /\ \A r \in store, r2 \in store' :
                     r2.id = r.id =>
                         IF r.id = pending[i].editingVersion.id
                         THEN /\ \A f \in {"version_number", "project_id",
                                           "uploaded_by", "is_approved"} :
                                     r2[f] = r[f]
                              /\ \A f \in UrlFields :
                                     r2[f] = IF pending[i].formData[f].s = <<>>
                                             THEN Null
                                             ELSE pending[i].formData[f]
                         ELSE r2 = r]_vars

\* Row 2 has been given both URLs; row 1 and the rest of row 2 are as
\* mounted.
C16_Witness ==
    /\ last.toast = "Version updated successfully"
    /\ Version(1, 1, Str(UrlA), Null, "u0", TRUE, 0) \in store
    /\ Version(2, 3, Str(UrlA), Str(UrlA), "u0", FALSE, 1) \in store

\* The suspended handlers that have issued their db.query call.
WriteCalls(q) == {i \in 1..Len(q) : q[i].await = "db.query"}

\* C17: a click on approve and the confirmation of a delete each issue one
\* call; a submit that passes validation starts one handler, whatever is
\* already in flight, with the draft and the list as they are, and that
\* handler issues one call once a user is resolved; no other step issues a
\* call.
C17_OneRequestPerAction ==
    [][/\ last'.op \in {"handleApprove", "handleDelete"} =>
              /\ Len(pending') = Len(pending) + 1
              /\ SubSeq(pending', 1, Len(pending)) = pending
              /\ pending'[Len(pending')].await = "db.query"
       /\ (last'.op = "handleSubmit" /\ last'.toast = NoToast) =>
              /\ Len(pending') = Len(pending) + 1
              /\ SubSeq(pending', 1, Len(pending)) = pending
              /\ pending'[Len(pending')].await = "getUser"
              /\ pending'[Len(pending')].formData = formData
              /\ pending'[Len(pending')].editingVersion = editingVersion
              /\ pending'[Len(pending')].versions = versions
       /\ (last'.op = "getUser" /\ last'.user # NoUser) =>
              /\ Len(pending') = Len(pending)
              /\ Cardinality(WriteCalls(pending')) = Cardinality(WriteCalls(pending)) + 1
       /\ Cardinality(WriteCalls(pending')) > Cardinality(WriteCalls(pending)) =>
              \/ last'.op \in {"handleApprove", "handleDelete"}
              \/ (last'.op = "getUser" /\ last'.user # NoUser)]_vars

\* Two submits of the same draft are in flight, each with its own insert
\* call.
C17_Witness ==
    /\ Len(pending) = 2
    /\ \A i \in 1..2 :
           /\ pending[i].handler = "handleSubmit"
           /\ pending[i].await = "db.query"
           /\ pending[i].call.operation = "insert"
    /\ pending[1].call = pending[2].call

\* C18: an insert call issued from an up-to-date list (the list its handler
\* holds is the store's, and no other handler is in flight) carries a
\* version_number greater than that of every record the project ever had,
\* deleted ones included.
C18_MonotonicNumbers ==
    \A i \in SubmitCalls :
        (/\ pending[i].call.operation = "insert"
         /\ pending[i].versions = store
         /\ Len(pending) = 1) =>
            pending[i].call.data.version_number > everMax

\* A URL value fit to be stored: null, or a non-empty string that new URL()
\* accepts.
Storable(v) == v = Null \/ (v.t = "string" /\ v.s # <<>> /\ UrlParses(v.s))

\* C19: every preview_url and final_url in an insert or update call of
\* handleSubmit, and in a record of the store, is null or a string that
\* parses as a URL; never the empty string, never an unparseable one.
C19_StoredUrlsParse ==
    /\ \A i \in SubmitCalls : \A f \in UrlFields : Storable(pending[i].call.data[f])
    /\ \A r \in store : \A f \in UrlFields : Storable(r[f])

\* A record created here has a URL and a null; a valid draft was saved.
C19_Witness ==
    \E r \in store :
        /\ r.uploaded_by = "u1"
        /\ r.preview_url = Null
        /\ r.final_url = Str(UrlA)

\* C20: an update issued for a row whose draft is as handleEdit seeded it
\* writes the row's own preview_url and final_url, null for null; and when
\* it returns on a store that still holds the row as it was, the store
\* differs in that record's updated_at only.
C20_EditRoundTrip ==
    [][/\ (last'.op = "getUser" /\ last'.user # NoUser) =>
              \A i \in 1..Len(pending) :
                  (/\ pending[i].await = "getUser"
                   /\ pending'[i].await = "db.query"
                   /\ pending[i].editingVersion # NoVersion
                   /\ \A f \in UrlFields :
                          /\ Storable(pending[i].editingVersion[f])
                          /\ pending[i].formData[f] = Shown(pending[i].editingVersion[f])) =>
                      /\ pending'[i].call.operation = "update"
                      /\ pending'[i].call.where = pending[i].editingVersion.id
                      /\ \A f \in UrlFields :
                             pending'[i].call.data[f] = pending[i].editingVersion[f]
       /\ last'.toast = "Version updated successfully" =>
              \A i \in SubmitCalls :
                  (/\ pending' = RemoveAt(pending, i)
                   /\ pending[i].editingVersion \in store
                   /\ \A f \in UrlFields :
                          pending[i].formData[f] = Shown(pending[i].editingVersion[f])) =>
                      \E t \in 0..limit :
                          store' = (store \ {pending[i].editingVersion}) \cup
                                   {[pending[i].editingVersion EXCEPT !.updated_at = t]}]_vars

\* Row 1 (a preview URL, no final URL, approved) has been opened and saved
\* as it was: only its timestamp is new.
C20_Witness ==
    /\ last.toast = "Version updated successfully"
    /\ store = {Version(1, 1, Str(UrlA), Null, "u0", TRUE, 1),
                Version(2, 3, Null, Null, "u0", FALSE, 0)}

=============================================================================
